---- MODULE Spec2Model ----
(***************************************************************************)
(* Requirement-coverage reconciliation: the two report generators of the   *)
(* repository, phase0_generate_reports.py and Fixes/engine/engine_cli.py.  *)
(* A Python str is a sequence of one-character strings; Python's None is    *)
(* the value None below.                                                    *)
(***************************************************************************)
EXTENDS Integers, Sequences, FiniteSets, TLC

VARIABLES prog, qExists, pdfExists, pypdf, pdfOk, header, cells,
          pc, status, err, qs, cov, coverage, missing_ev, total, files,
          nInput, nResult

vars == <<prog, qExists, pdfExists, pypdf, pdfOk, header, cells,
          pc, status, err, qs, cov, coverage, missing_ev, total, files,
          nInput, nResult>>

\* ------------------------------------------------------------ bounds
MaxRows == 2
MaxToks == 2
MaxLen == 5

\* ------------------------------------------------- Python str helpers
None == <<"<None>">>

LowerChars == <<"a","b","c","d","e","f","g","h","i","j","k","l","m","n","o","p","q","r","s","t","u","v","w","x","y","z">>
UpperChars == <<"A","B","C","D","E","F","G","H","I","J","K","L","M","N","O","P","Q","R","S","T","U","V","W","X","Y","Z">>
DigitChars == <<"0","1","2","3","4","5","6","7","8","9">>
\* the characters of the inputs, in code-point order (str comparison)
CharOrder == <<"\t", " ", ",", "-", ".", "/">> \o DigitChars \o <<";">>
             \o UpperChars \o <<"_">> \o LowerChars \o <<"|">>

Range(s) == {s[i] : i \in 1..Len(s)}

IndexOf(c, s) == IF \E i \in 1..Len(s) : s[i] = c
                 THEN CHOOSE i \in 1..Len(s) : s[i] = c ELSE 0

CharSet == Range(CharOrder)
UpperMap == [c \in CharSet |->
               IF IndexOf(c, LowerChars) > 0
               THEN UpperChars[IndexOf(c, LowerChars)] ELSE c]
LowerMap == [c \in CharSet |->
               IF IndexOf(c, UpperChars) > 0
               THEN LowerChars[IndexOf(c, UpperChars)] ELSE c]
UpperChar(c) == IF c \in CharSet THEN UpperMap[c] ELSE c
LowerChar(c) == IF c \in CharSet THEN LowerMap[c] ELSE c
upper(s) == [i \in 1..Len(s) |-> UpperChar(s[i])]
lower(s) == [i \in 1..Len(s) |-> LowerChar(s[i])]

\* \s of re and the characters str.strip() removes
WS == {" ", "\t"}
DigitSet == Range(DigitChars)
WordSet == DigitSet \cup Range(LowerChars) \cup Range(UpperChars) \cup {"_"}
IsDigit(c) == c \in DigitSet
\* \w of re
IsWord(c) == c \in WordSet

RECURSIVE lstrip(_)
lstrip(s) == IF s # <<>> /\ Head(s) \in WS THEN lstrip(Tail(s)) ELSE s
RECURSIVE rstrip(_)
rstrip(s) == IF s # <<>> /\ s[Len(s)] \in WS
             THEN rstrip(SubSeq(s, 1, Len(s) - 1)) ELSE s
strip(s) == rstrip(lstrip(s))

\* re.sub(r"[D]+", "", s) and str.replace(c, ""): the characters of D removed
RECURSIVE RemoveChars(_, _)
RemoveChars(s, D) ==
  IF s = <<>> THEN <<>>
  ELSE IF Head(s) \in D THEN RemoveChars(Tail(s), D)
       ELSE <<Head(s)>> \o RemoveChars(Tail(s), D)

\* str.replace(a, b) for one-character a and b
replace(s, a, b) == [i \in 1..Len(s) |-> IF s[i] = a THEN b ELSE s[i]]

FirstIn(s, D) == IF \E i \in 1..Len(s) : s[i] \in D
                 THEN CHOOSE i \in 1..Len(s) :
                        s[i] \in D /\ \A j \in 1..(i - 1) : s[j] \notin D
                 ELSE 0

\* str.split(c): one piece between any two delimiters, empty pieces kept
RECURSIVE split(_, _)
split(s, D) ==
  LET i == FirstIn(s, D)
  IN IF i = 0 THEN <<s>>
     ELSE <<SubSeq(s, 1, i - 1)>> \o split(SubSeq(s, i + 1, Len(s)), D)

\* re.split(r"[D]+", s): a maximal run of delimiters is one delimiter
RECURSIVE re_split(_, _)
re_split(s, D) ==
  LET i == FirstIn(s, D)
      rest == SubSeq(s, i, Len(s))
      j == IF \E k \in 1..Len(rest) : rest[k] \notin D
           THEN CHOOSE k \in 1..Len(rest) :
                  rest[k] \notin D /\ \A m \in 1..(k - 1) : rest[m] \in D
           ELSE Len(rest) + 1
  IN IF i = 0 THEN <<s>>
     ELSE <<SubSeq(s, 1, i - 1)>> \o re_split(SubSeq(rest, j, Len(rest)), D)

\* sep.join(seq)
RECURSIVE join(_, _)
join(seq, sep) ==
  IF seq = <<>> THEN <<>>
  ELSE IF Len(seq) = 1 THEN seq[1]
       ELSE seq[1] \o sep \o join(Tail(seq), sep)

\* str(n) for n >= 0
RECURSIVE str_int(_)
str_int(n) == IF n < 10 THEN <<DigitChars[n + 1]>>
              ELSE str_int(n \div 10) \o <<DigitChars[(n % 10) + 1]>>

\* int(s) for a str of digits
RECURSIVE int(_)
int(s) == IF s = <<>> THEN 0
          ELSE 10 * int(SubSeq(s, 1, Len(s) - 1))
               + (IndexOf(s[Len(s)], DigitChars) - 1)

\* str.isdigit()
isdigit(s) == s # <<>> /\ \A i \in 1..Len(s) : IsDigit(s[i])

\* a < b for str: code-point order, a proper prefix first
RECURSIVE StrLess(_, _)
StrLess(a, b) ==
  IF b = <<>> THEN FALSE
  ELSE IF a = <<>> THEN TRUE
  ELSE IF Head(a) = Head(b) THEN StrLess(Tail(a), Tail(b))
  ELSE IndexOf(Head(a), CharOrder) < IndexOf(Head(b), CharOrder)

\* sorted(S) for a set of str
RECURSIVE sorted(_)
sorted(S) ==
  IF S = {} THEN <<>>
  ELSE LET m == CHOOSE x \in S : \A y \in S \ {x} : StrLess(x, y)
       IN <<m>> \o sorted(S \ {m})

\* `not val` for a str or None
Falsy(val) == val = None \/ val = <<>>

\* ------------------------------------------------ the requirement codes
Letters == <<<<"A">>, <<"B">>, <<"C">>, <<"D">>, <<"E">>, <<"F">>, <<"G">>>>
REQS == [i \in 1..10 |-> <<"C","R">> \o str_int(i)] \o Letters
ReqSet == Range(REQS)

\* ----------------------------------------------------- the normalizers
\* phase0: the tokens of a tag cell
tokens_from(val) ==
  IF Falsy(val) THEN {}
  ELSE LET toks == re_split(val, {",", "|", ";", "/"} \cup WS)
       IN {upper(strip(t)) : t \in {x \in Range(toks) : strip(x) # <<>>}}

\* engine: the tags of a tag cell
norm_tags(val) ==
  IF Falsy(val) THEN {}
  ELSE LET raw == {RemoveChars(upper(strip(t)), {" "}) :
                     t \in Range(split(replace(val, ";", ","), {","}))}
       IN {t \in raw : t # <<>>}

\* norm_cr comparing the digits as written, not their value
norm_cr_unpadded(tok) ==
  LET t == upper(RemoveChars(IF Falsy(tok) THEN <<>> ELSE tok,
                             WS \cup {"_", "-"}))
      n == SubSeq(t, 3, Len(t))
  IN IF Len(t) >= 2 /\ SubSeq(t, 1, 2) = <<"C","R">>
        /\ n \in {str_int(k) : k \in 1..10}
     THEN <<"C","R">> \o n
     ELSE None

\* phase0: the CR code a tag token names, or None
norm_cr(tok) ==
  LET t == upper(RemoveChars(IF Falsy(tok) THEN <<>> ELSE tok,
                             WS \cup {"_", "-"}))
      n == SubSeq(t, 3, Len(t))
  IN IF Len(t) >= 2 /\ SubSeq(t, 1, 2) = <<"C","R">>
        /\ isdigit(n) /\ 1 <= int(n) /\ int(n) <= 10
     THEN <<"C","R">> \o str_int(int(n))
     ELSE None


\* ------------------------------------------ CR_RX and CR_RX.finditer
NoMatch == [end |-> 0, grp |-> <<>>]

At(txt, k) == IF 1 <= k /\ k <= Len(txt) THEN txt[k] ELSE ""

\* \b between positions k-1 and k
WordBoundary(txt, k) == IsWord(At(txt, k - 1)) # IsWord(At(txt, k))

\* one way through \bCR[-_ ]?0?([1-9]|10)\b from position i: with or without
\* the separator, with or without the zero, the first or second alternative
CR_RX_path(txt, i, sep, zero, alt) ==
  LET p1 == i + 2
      p2 == p1 + sep
      p3 == p2 + zero
      p4 == p3 + alt
  IN IF /\ WordBoundary(txt, i)
        /\ UpperChar(At(txt, i)) = "C"
        /\ UpperChar(At(txt, i + 1)) = "R"
        /\ (sep = 1 => At(txt, p1) \in {"-", "_", " "})
        /\ (zero = 1 => At(txt, p2) = "0")
        /\ (alt = 1 => IsDigit(At(txt, p3)) /\ At(txt, p3) # "0")
        /\ (alt = 2 => At(txt, p3) = "1" /\ At(txt, p3 + 1) = "0")
        /\ WordBoundary(txt, p4)
     THEN [end |-> p4, grp |-> SubSeq(txt, p3, p4 - 1)]
     ELSE NoMatch

\* the backtracking order: greedy ?, alternatives left to right
CR_RX_paths == << <<1, 1, 1>>, <<1, 1, 2>>, <<1, 0, 1>>, <<1, 0, 2>>,
                  <<0, 1, 1>>, <<0, 1, 2>>, <<0, 0, 1>>, <<0, 0, 2>> >>

\* CR_RX.match at position i: the first path that succeeds
CR_RX(txt, i) ==
  LET ok == {k \in 1..Len(CR_RX_paths) :
               CR_RX_path(txt, i, CR_RX_paths[k][1], CR_RX_paths[k][2],
                          CR_RX_paths[k][3]) # NoMatch}
      k0 == CHOOSE k \in ok : \A j \in ok : k <= j
  IN IF ok = {} THEN NoMatch
     ELSE CR_RX_path(txt, i, CR_RX_paths[k0][1], CR_RX_paths[k0][2],
                     CR_RX_paths[k0][3])

\* CR_RX.finditer(txt): group(1) of the non-overlapping matches, left to right
RECURSIVE finditer(_, _)
finditer(txt, pos) ==
  IF pos > Len(txt) THEN <<>>
  ELSE LET m == CR_RX(txt, pos)
       IN IF m # NoMatch THEN <<m.grp>> \o finditer(txt, m.end)
          ELSE finditer(txt, pos + 1)

\* ------------------------------------------------ csv.DictReader rows
\* a row dict: its keys in column order and its values; a short row has
\* None for the cells it lacks
DictRow(fieldnames, cs) ==
  [keys |-> fieldnames,
   val |-> [n \in Range(fieldnames) |->
              LET i == IndexOf(n, fieldnames)
              IN IF i <= Len(cs) THEN cs[i] ELSE None]]

\* row.get(k, default)
Get(row, k, default) == IF k \in DOMAIN row.val THEN row.val[k] ELSE default

\* str(v)
str(v) == IF v = None THEN <<"N","o","n","e">> ELSE v

load_rows(fieldnames, rows) ==
  [i \in 1..Len(rows) |-> DictRow(fieldnames, rows[i])]

\* ------------------------------------------------------------- phase0
ID_CANDS == {<<"i","d">>, <<"q","u","e","s","t","i","o","n","_","i","d">>, <<"q","i","d">>, <<"k","e","y">>, <<"r","e","f">>}
TXT_CANDS == {<<"t","e","x","t">>, <<"q","u","e","s","t","i","o","n">>, <<"p","r","o","m","p","t">>, <<"b","o","d","y">>, <<"l","a","b","e","l">>}
TAG_CANDS == {<<"t","a","g","s">>, <<"t","a","g">>, <<"c","o","n","t","r","o","l","s">>, <<"c","o","n","t","r","o","l">>, <<"c","a","t","e","g","o","r","i","e","s">>,
              <<"c","a","t","e","g","o","r","y">>, <<"c","r">>, <<"m","a","p","p","i","n","g">>}

\* next((c for c in cols if c.lower() in CANDS), None)
FirstCol(cols, CANDS) ==
  IF \E i \in 1..Len(cols) : lower(cols[i]) \in CANDS
  THEN cols[CHOOSE i \in 1..Len(cols) :
              /\ lower(cols[i]) \in CANDS
              /\ \A j \in 1..(i - 1) : lower(cols[j]) \notin CANDS]
  ELSE None

IsTagCol(c) == lower(c) \in TAG_CANDS

\* if qid not in cov[cr]: cov[cr].append(qid)
AppendIfNew(ids, qid) == IF qid \in Range(ids) THEN ids ELSE Append(ids, qid)

\* the loops over a set of codes
AddCodes(c, codes, qid) ==
  [r \in DOMAIN c |-> IF r \in codes THEN AppendIfNew(c[r], qid) ELSE c[r]]

\* the loop over the matches of the text, in order
RECURSIVE AddMatches(_, _, _)
AddMatches(c, groups, qid) ==
  IF groups = <<>> THEN c
  ELSE LET cr == <<"C","R">> \o str_int(int(Head(groups)))
       IN AddMatches([c EXCEPT ![cr] = AppendIfNew(c[cr], qid)],
                     Tail(groups), qid)

\* qid=row.get(id_field) or f"row{idx}"
RowQid(row, id_field, idx) ==
  LET v == Get(row, id_field, None)
  IN IF Falsy(v) THEN <<"r","o","w">> \o str_int(idx) ELSE v

RowTags(row, tag_fields) ==
  UNION {tokens_from(Get(row, tag_fields[k], <<>>)) : k \in 1..Len(tag_fields)}

TagCRs(tags) == {norm_cr(t) : t \in tags} \ {None}

TagLetters(tags) == {l \in Range(Letters) : l \in tags}

TextGroups(row, txt_field) ==
  IF txt_field # None THEN finditer(str(Get(row, txt_field, <<>>)), 1)
  ELSE <<>>

\* the body of the loop over the rows
CovRow(c, row, idx, id_field, txt_field, tag_fields) ==
  LET qid == RowQid(row, id_field, idx)
      tags == RowTags(row, tag_fields)
      c1 == AddCodes(c, TagCRs(tags), qid)
      c2 == AddCodes(c1, TagLetters(tags), qid)
  IN AddMatches(c2, TextGroups(row, txt_field), qid)

RECURSIVE CovLoop(_, _, _, _, _, _)
CovLoop(c, rows, idx, id_field, txt_field, tag_fields) ==
  IF idx > Len(rows) THEN c
  ELSE CovLoop(CovRow(c, rows[idx], idx, id_field, txt_field, tag_fields),
               rows, idx + 1, id_field, txt_field, tag_fields)

EmptyCov == [r \in ReqSet |-> <<>>]

coverage_from_rows(rows) ==
  IF rows = <<>> THEN EmptyCov
  ELSE LET cols == rows[1].keys
       IN CovLoop(EmptyCov, rows, 1, FirstCol(cols, ID_CANDS),
                  FirstCol(cols, TXT_CANDS), SelectSeq(cols, IsTagCol))

\* the rows write_coverage writes
write_coverage(c) ==
  [k \in 1..Len(REQS) |->
     LET req == REQS[k]
         ids == c[req]
     IN [Requirement |-> req,
         Covered |-> IF ids # <<>> THEN "Y" ELSE "N",
         Count |-> Len(ids),
         QuestionIDs |-> join(ids, <<";">>),
         ProposedAddIfGap |-> IF ids # <<>> THEN <<>>
                              ELSE <<"A","D","D","_">> \o req \o <<"_","Q","U","E","S","T","I","O","N">>]]

COVERAGE_OUT == "coverage_report.csv"
BINDING_OUT == "binding_map_v1.json"

\* ------------------------------------------------------------- engine
EVIDENCE_REQUIRED == <<"E","V","I","D","E","N","C","E","_","R","E","Q","U","I","R","E","D">>

\* cols = set(c.lower() for c in rd.fieldnames or [])
EngCols(fieldnames) == {lower(c) : c \in Range(fieldnames)}

idcol(cols) == IF <<"i","d">> \in cols THEN <<"i","d">>
               ELSE IF <<"q","u","e","s","t","i","o","n","_","i","d">> \in cols THEN <<"q","u","e","s","t","i","o","n","_","i","d">> ELSE None
tagcol(cols) == IF <<"t","a","g","s">> \in cols THEN <<"t","a","g","s">>
                ELSE IF <<"t","a","g">> \in cols THEN <<"t","a","g">> ELSE None
evcol(cols) == IF <<"e","v","i","d","e","n","c","e">> \in cols THEN <<"e","v","i","d","e","n","c","e">>
               ELSE IF <<"e","v","i","d","e","n","c","e","_","p","a","t","h">> \in cols THEN <<"e","v","i","d","e","n","c","e","_","p","a","t","h">>
               ELSE None

\* the column test with `and` in place of `or`
MissingColumns_both(cols) == idcol(cols) = None /\ tagcol(cols) = None

\* if not idcol or not tagcol: exit 3
MissingColumns(cols) == idcol(cols) = None \/ tagcol(cols) = None

\* matched = sorted(r for r in REQS if r in tags)
Matched(tags) == {r \in ReqSet : r \in tags}

\* coverage[r]["count"] += 1; coverage[r]["ids"].append(qid)
EngCredit(cv, matched, qid) ==
  [r \in DOMAIN cv |->
     IF r \in matched
     THEN [count |-> cv[r].count + 1, ids |-> Append(cv[r].ids, qid)]
     ELSE cv[r]]

EmptyCoverage == [r \in ReqSet |-> [count |-> 0, ids |-> <<>>]]

\* the evidence cell the gate reads
EngEvidence(row, ec) == IF ec # None THEN Get(row, ec, <<>>) ELSE <<>>

GapEntry(qid, tags) == [id |-> qid, tags |-> join(sorted(tags), <<",">>)]

\* the rows with Covered taken from the ids joined, which are empty too when
\* the one id listed is the empty string
cov_rows_joined(cv) ==
  [k \in 1..Len(REQS) |->
     LET r == REQS[k]
     IN [Requirement |-> r,
         Covered |-> IF join(cv[r].ids, <<";">>) # <<>> THEN "Y" ELSE "N",
         Count |-> cv[r].count,
         QuestionIDs |-> join(cv[r].ids, <<";">>)]]

cov_rows(cv) ==
  [k \in 1..Len(REQS) |->
     LET r == REQS[k]
     IN [Requirement |-> r,
         Covered |-> IF cv[r].count > 0 THEN "Y" ELSE "N",
         Count |-> cv[r].count,
         QuestionIDs |-> join(cv[r].ids, <<";">>)]]

COV_CSV == "phase2_coverage.csv"
GAPS_CSV == "phase2_missing_evidence.csv"
SUMM_JSON == "phase2_summary.json"

summary(n, cv, gaps) ==
  [total_questions |-> n,
   requirements |-> [r \in ReqSet |-> cv[r].count],
   missing_evidence_count |-> Len(gaps),
   artifacts |-> [coverage_csv |-> COV_CSV, missing_evidence_csv |-> GAPS_CSV]]


\* ----------------------------------------------------- the input tables
\* a questions file: a header and rows of cells. The header menu names each
\* column and the field of a record it carries.
Col(n, f) == [name |-> n, field |-> f]

HeaderMenu ==
  { << Col(<<"i","d">>, "id"), Col(<<"t","a","g","s">>, "tags"), Col(<<"t","e","x","t">>, "text"),
       Col(<<"e","v","i","d","e","n","c","e">>, "ev") >>,
    << Col(<<"t","a","g","s">>, "tags"), Col(<<"t","e","x","t">>, "text"), Col(<<"e","v","i","d","e","n","c","e">>, "ev") >>,
    << Col(<<"I","D">>, "id"), Col(<<"T","a","g","s">>, "tags"), Col(<<"T","e","x","t">>, "text"),
       Col(<<"E","v","i","d","e","n","c","e">>, "ev") >>,
    << Col(<<"i","d">>, "id"), Col(<<"t","e","x","t">>, "text") >>,
    << Col(<<"t","e","x","t">>, "text"), Col(<<"e","v","i","d","e","n","c","e">>, "ev") >>,
    << Col(<<"q","i","d">>, "id"), Col(<<"c","a","t","e","g","o","r","y">>, "tags"), Col(<<"c","r">>, "tag2"),
       Col(<<"p","r","o","m","p","t">>, "text") >>,
    << Col(<<"Q","u","e","s","t","i","o","n">>, "text"), Col(<<"C","a","t","e","g","o","r","y">>, "tags") >> }

\* the records of the menu; cut is the number of trailing cells a short row
\* lacks
RowMenu ==
  { [id |-> <<"Q","1">>, tags |-> <<"c","r","1",","," ","E","V","I","D","E","N","C","E","_","R","E","Q","U","I","R","E","D">>, tag2 |-> <<>>,
     text |-> <<>>, ev |-> <<" ">>, cut |-> 0],
    [id |-> <<"Q","2">>, tags |-> <<>>, tag2 |-> <<>>,
     text |-> <<"S","e","e"," ","C","R","-","0","3"," ","a","n","d"," ","C","R","1","0"," ","f","o","r"," ","d","e","t","a","i","l","s">>, ev |-> <<>>, cut |-> 0],
    [id |-> <<"Q","1">>, tags |-> <<"A",";","C","R","1">>, tag2 |-> <<"c","r","_","0","1","/","b">>,
     text |-> <<"c","r","1"," ","i","s"," ","A">>, ev |-> <<"e",".","p","d","f">>, cut |-> 0],
    [id |-> <<"Q","4">>, tags |-> <<"C","A","R","D","|","B">>, tag2 |-> <<"c">>,
     text |-> <<"P","l","a","n"," ","A"," ","f","o","r"," ","C","R","1","1">>, ev |-> <<>>, cut |-> 0],
    [id |-> <<" ","Q","0"," ">>, tags |-> <<"E","V","I","D","E","N","C","E","_","R","E","Q","U","I","R","E","D",",","a">>, tag2 |-> <<"A">>,
     text |-> <<>>, ev |-> <<"e",".","p","d","f">>, cut |-> 0],
    [id |-> <<"Q","3">>, tags |-> <<"E","V","I","D","E","N","C","E","_","R","E","Q","U","I","R","E","D">>, tag2 |-> <<>>,
     text |-> <<>>, ev |-> <<>>, cut |-> 2],
    [id |-> <<>>, tags |-> <<"G">>, tag2 |-> <<>>,
     text |-> <<>>, ev |-> <<>>, cut |-> 0] }

Names(h) == [k \in 1..Len(h) |-> h[k].name]

\* the cells of a record under a header (DictReader yields no empty row)
Cells(h, r) ==
  LET n == IF Len(h) - r.cut < 1 THEN 1 ELSE Len(h) - r.cut
  IN [k \in 1..n |-> r[h[k].field]]

Tables == UNION {[1..n -> RowMenu] : n \in 0..MaxRows}

\* the artifacts of a run
Artifacts(p) == IF p = "phase0" THEN {COVERAGE_OUT, BINDING_OUT}
                ELSE {COV_CSV, GAPS_CSV, SUMM_JSON}

NoFiles == [f \in {} |-> <<>>]
NoInput == [toks |-> <<>>, delim |-> <<>>, raw |-> None]
NoResult == [fn |-> "", out |-> {}]

ProgInit(p, start) ==
  /\ prog = p
  /\ pc = start
  /\ status = -1
  /\ err = ""
  /\ qs = <<>>
  /\ cov = EmptyCov
  /\ coverage = EmptyCoverage
  /\ missing_ev = <<>>
  /\ total = 0
  /\ files = NoFiles
  /\ nInput = NoInput
  /\ nResult = NoResult

\* the PDF template and PyPDF2 concern phase0 alone
PdfEnv == {<<FALSE, FALSE, FALSE>>, <<TRUE, FALSE, FALSE>>,
           <<TRUE, TRUE, FALSE>>, <<TRUE, TRUE, TRUE>>}

InputInit ==
  \/ /\ qExists = FALSE
     /\ header = <<>>
     /\ cells = <<>>
  \/ /\ qExists = TRUE
     /\ \/ header = <<>> /\ cells = <<>>
        \/ \E h \in HeaderMenu, t \in Tables :
             /\ header = Names(h)
             /\ cells = [i \in 1..Len(t) |-> Cells(h, t[i])]

Init ==
  /\ InputInit
  /\ \/ /\ ProgInit("phase0", "ensure")
        /\ \E e \in PdfEnv : pdfExists = e[1] /\ pypdf = e[2] /\ pdfOk = e[3]
     \/ /\ ProgInit("engine", "start")
        /\ pdfExists = TRUE /\ pypdf = TRUE /\ pdfOk = TRUE

Inputs == <<prog, qExists, pdfExists, pypdf, pdfOk, header, cells, nInput, nResult>>

Exit(code, why) == pc' = "exited" /\ status' = code /\ err' = why

\* ------------------------------------------------------- phase0 main()
\* ensure(): sys.exit("Missing ...") without the questions or the PDF
P0_ensure ==
  /\ prog = "phase0" /\ pc = "ensure"
  /\ IF ~qExists \/ ~pdfExists
     THEN Exit(1, "Missing file")
     ELSE pc' = "load_rows" /\ UNCHANGED <<status, err>>
  /\ UNCHANGED <<Inputs, qs, cov, coverage, missing_ev, total, files>>

P0_load_rows ==
  /\ prog = "phase0" /\ pc = "load_rows"
  /\ qs' = load_rows(header, cells)
  /\ pc' = "coverage_from_rows"
  /\ UNCHANGED <<Inputs, status, err, cov, coverage, missing_ev, total, files>>

P0_coverage_from_rows ==
  /\ prog = "phase0" /\ pc = "coverage_from_rows"
  /\ cov' = coverage_from_rows(qs)
  /\ pc' = "write_coverage"
  /\ UNCHANGED <<Inputs, status, err, qs, coverage, missing_ev, total, files>>

P0_write_coverage ==
  /\ prog = "phase0" /\ pc = "write_coverage"
  /\ files' = (COVERAGE_OUT :> write_coverage(cov)) @@ files
  /\ pc' = "extract_pdf_fields"
  /\ UNCHANGED <<Inputs, status, err, qs, cov, coverage, missing_ev, total>>

\* extract_pdf_fields(): sys.exit without PyPDF2; PdfReader raises on a file
\* it cannot read
P0_extract_pdf_fields ==
  /\ prog = "phase0" /\ pc = "extract_pdf_fields"
  /\ IF ~pypdf THEN Exit(1, "PyPDF2 not available")
     ELSE IF ~pdfOk THEN Exit(1, "PdfReadError")
     ELSE pc' = "write_binding_map" /\ UNCHANGED <<status, err>>
  /\ UNCHANGED <<Inputs, qs, cov, coverage, missing_ev, total, files>>

P0_write_binding_map ==
  /\ prog = "phase0" /\ pc = "write_binding_map"
  /\ files' = (BINDING_OUT :> [template_pdf |-> "pdf_temp_export.pdf",
                               version |-> 1, fields |-> "fields"]) @@ files
  /\ pc' = "return"
  /\ UNCHANGED <<Inputs, status, err, qs, cov, coverage, missing_ev, total>>

P0_return ==
  /\ prog = "phase0" /\ pc = "return"
  /\ pc' = "done" /\ status' = 0
  /\ UNCHANGED <<Inputs, err, qs, cov, coverage, missing_ev, total, files>>

\* ------------------------------------------------------- engine main()
Eng_exists ==
  /\ prog = "engine" /\ pc = "start"
  /\ IF ~qExists THEN Exit(2, "questions file not found")
     ELSE pc' = "discover" /\ UNCHANGED <<status, err>>
  /\ UNCHANGED <<Inputs, qs, cov, coverage, missing_ev, total, files>>

Eng_discover ==
  /\ prog = "engine" /\ pc = "discover"
  /\ IF MissingColumns(EngCols(header))
     THEN Exit(3, "CSV must contain at least ID and TAGS columns")
     ELSE pc' = "rows" /\ UNCHANGED <<status, err>>
  /\ UNCHANGED <<Inputs, qs, cov, coverage, missing_ev, total, files>>

\* one pass of `for row in rd`; None.strip() raises AttributeError
Eng_row ==
  /\ prog = "engine" /\ pc = "rows" /\ total < Len(cells)
  /\ LET cols == EngCols(header)
         row == DictRow(header, cells[total + 1])
         idv == Get(row, idcol(cols), <<>>)
         qid == strip(idv)
         tags == norm_tags(Get(row, tagcol(cols), <<>>))
         ev == EngEvidence(row, evcol(cols))
     IN /\ total' = total + 1
        /\ IF idv = None
           THEN /\ Exit(1, "AttributeError")
                /\ UNCHANGED <<coverage, missing_ev>>
           ELSE /\ coverage' = EngCredit(coverage, Matched(tags), qid)
                /\ IF EVIDENCE_REQUIRED \in tags /\ ev = None
                   THEN Exit(1, "AttributeError") /\ UNCHANGED missing_ev
                   ELSE /\ UNCHANGED <<pc, status, err>>
                        /\ missing_ev' =
                             IF EVIDENCE_REQUIRED \in tags /\ strip(ev) = <<>>
                             THEN Append(missing_ev, GapEntry(qid, tags))
                             ELSE missing_ev
  /\ UNCHANGED <<Inputs, qs, cov, files>>

Eng_write_coverage ==
  /\ prog = "engine" /\ pc = "rows" /\ total = Len(cells)
  /\ files' = (COV_CSV :> cov_rows(coverage)) @@ files
  /\ pc' = "write_gaps"
  /\ UNCHANGED <<Inputs, status, err, qs, cov, coverage, missing_ev, total>>

Eng_write_gaps ==
  /\ prog = "engine" /\ pc = "write_gaps"
  /\ files' = (GAPS_CSV :> missing_ev) @@ files
  /\ pc' = "write_summary"
  /\ UNCHANGED <<Inputs, status, err, qs, cov, coverage, missing_ev, total>>

Eng_write_summary ==
  /\ prog = "engine" /\ pc = "write_summary"
  /\ files' = (SUMM_JSON :> summary(total, coverage, missing_ev)) @@ files
  /\ pc' = "done" /\ status' = 0
  /\ UNCHANGED <<Inputs, err, qs, cov, coverage, missing_ev, total>>

Next ==
  \/ P0_ensure \/ P0_load_rows \/ P0_coverage_from_rows \/ P0_write_coverage
  \/ P0_extract_pdf_fields \/ P0_write_binding_map \/ P0_return
  \/ Eng_exists \/ Eng_discover \/ Eng_row
  \/ Eng_write_coverage \/ Eng_write_gaps \/ Eng_write_summary

Spec == Init /\ [][Next]_vars


\* ------------------------------------------- the normalizers on their own
\* a list of tag tokens joined by one delimiter, or no value at all
TokMenu == {<<"C","R","1">>, <<"c","r","2">>, <<"A">>, <<"C","r","_","1","0">>}
DelimMenu == {<<",">>, <<","," ">>, <<";">>, <<"|">>, <<"/">>, <<" ">>}
TokLists == UNION {[1..n -> TokMenu] : n \in 0..MaxToks}

InitNorm ==
  /\ prog = "normalizers" /\ pc = "normalize"
  /\ status = -1 /\ err = "" /\ qs = <<>>
  /\ cov = EmptyCov /\ coverage = EmptyCoverage
  /\ missing_ev = <<>> /\ total = 0 /\ files = NoFiles
  /\ qExists = FALSE /\ pdfExists = FALSE /\ pypdf = FALSE /\ pdfOk = FALSE
  /\ header = <<>> /\ cells = <<>>
  /\ nResult = NoResult
  /\ \/ nInput = NoInput
     \/ \E t \in TokLists, d \in DelimMenu :
          nInput = [toks |-> t, delim |-> d, raw |-> join(t, d)]

NormVars == <<prog, qExists, pdfExists, pypdf, pdfOk, header, cells, status,
              err, qs, cov, coverage, missing_ev, total, files, nInput>>

Norm_tokens_from ==
  /\ pc = "normalize"
  /\ nResult' = [fn |-> "tokens_from", out |-> tokens_from(nInput.raw)]
  /\ pc' = "normalized"
  /\ UNCHANGED NormVars

Norm_norm_tags ==
  /\ pc = "normalize"
  /\ nResult' = [fn |-> "norm_tags", out |-> norm_tags(nInput.raw)]
  /\ pc' = "normalized"
  /\ UNCHANGED NormVars

NextNorm == Norm_tokens_from \/ Norm_norm_tags

SpecNorm == InitNorm /\ [][NextNorm]_vars

\* ------------------------- the phase0 aggregator on one record, all strings
\* every string of at most MaxLen characters as the tag cell or as the text
Alphabet == {"C", "r", "-", "_", " ", "0", "1"}
Strings == UNION {[1..n -> Alphabet] : n \in 0..MaxLen}

InitMatch ==
  /\ ProgInit("phase0", "load_rows")
  /\ qExists = TRUE /\ pdfExists = TRUE /\ pypdf = TRUE /\ pdfOk = TRUE
  /\ header = <<<<"i","d">>, <<"t","a","g","s">>, <<"t","e","x","t">>>>
  /\ \E str1 \in Strings :
       \/ cells = << <<<<"Q","1">>, str1, <<>> >> >>
       \/ cells = << <<<<"Q","1">>, <<>>, str1>> >>

NextMatch == P0_load_rows \/ P0_coverage_from_rows

SpecMatch == InitMatch /\ [][NextMatch]_vars


\* ------------------------------------------- the records of the input
\* The record of row i as the specification describes it: its id, its tag
\* tokens and its evidence, read from the columns whose names match the
\* candidates of the running program case-insensitively.
IdNames == IF prog = "phase0" THEN ID_CANDS ELSE {<<"i","d">>, <<"q","u","e","s","t","i","o","n","_","i","d">>}
TagNames == IF prog = "phase0" THEN TAG_CANDS ELSE {<<"t","a","g","s">>, <<"t","a","g">>}
EvNames == {<<"e","v","i","d","e","n","c","e">>, <<"e","v","i","d","e","n","c","e","_","p","a","t","h">>}

ColsLike(names) == {k \in 1..Len(header) : lower(header[k]) \in names}
HasIdColumn == ColsLike(IdNames) # {}
HasTagColumn == ColsLike(TagNames) # {}

\* the cell of row i in column k; None when the row is too short
Cell(i, k) == IF k <= Len(cells[i]) THEN cells[i][k] ELSE None

\* the cell of row i in the first column among ks; None without such a column
FirstCell(i, ks) ==
  IF ks = {} THEN None
  ELSE Cell(i, CHOOSE k \in ks : \A j \in ks : k <= j)

RowId(i) == <<"r","o","w">> \o str_int(i)

RecId(i) ==
  LET c == FirstCell(i, ColsLike(IdNames))
  IN IF prog = "phase0" THEN (IF Falsy(c) THEN RowId(i) ELSE c)
     ELSE (IF c = None THEN <<>> ELSE strip(c))

RecTags(i) ==
  IF prog = "phase0"
  THEN UNION {tokens_from(Cell(i, k)) : k \in ColsLike(TagNames)}
  ELSE norm_tags(FirstCell(i, ColsLike(TagNames)))

RecEvidence(i) == FirstCell(i, ColsLike(EvNames))

RecText(i) == FirstCell(i, ColsLike(TXT_CANDS))

\* the codes record i counts for
RecCodes(i) ==
  IF prog = "phase0"
  THEN TagCRs(RecTags(i)) \cup TagLetters(RecTags(i))
       \cup {<<"C","R">> \o str_int(int(g)) :
               g \in Range(IF RecText(i) = None /\ ColsLike(TXT_CANDS) = {}
                           THEN <<>> ELSE finditer(str(RecText(i)), 1))}
  ELSE {r \in ReqSet : r \in RecTags(i)}

\* the ledger of the running program
Ids(r) == IF prog = "phase0" THEN cov[r] ELSE coverage[r].ids

\* the rows have all been aggregated
Aggregated ==
  \/ prog = "phase0" /\ err # "Missing file"
     /\ pc \notin {"ensure", "load_rows", "coverage_from_rows"}
  \/ prog = "engine" /\ pc \in {"write_gaps", "write_summary", "done"}

CovFile == IF prog = "phase0" THEN COVERAGE_OUT ELSE COV_CSV
Emitted == CovFile \in DOMAIN files
Ended == pc \in {"done", "exited"}

NoDuplicates(seq) == \A i, j \in 1..Len(seq) : seq[i] = seq[j] => i = j

\* seq without the later occurrences of each element
RECURSIVE FirstSeen(_)
FirstSeen(seq) ==
  IF seq = <<>> THEN <<>>
  ELSE LET init == FirstSeen(SubSeq(seq, 1, Len(seq) - 1))
           last == seq[Len(seq)]
       IN IF last \in Range(init) THEN init ELSE Append(init, last)

\* the ids of the records counting for r, in input order
RECURSIVE MatchIds(_, _)
MatchIds(r, n) ==
  IF n = 0 THEN <<>>
  ELSE IF r \in RecCodes(n) THEN Append(MatchIds(r, n - 1), RecId(n))
       ELSE MatchIds(r, n - 1)

CRn(n) == <<"C","R">> \o str_int(n)

\* k zeros
Zeros(k) == [i \in 1..k |-> "0"]

\* the spellings of a mention of CRn in a text: CR, at most one separator, at
\* most one zero, the number
MentionForms ==
  [n \in 1..10 |->
     {<<"C","R">> \o sep \o z \o str_int(n) :
        sep \in {<<>>, <<"-">>, <<"_">>, <<" ">>}, z \in {<<>>, <<"0">>}}]

\* the spellings of CRn as a tag token of at most len characters,
\* zero-padded or not
PaddedForms(n, len) == {<<"C","R">> \o Zeros(k) \o str_int(n) : k \in 0..len}

\* (a) the numbers n in 1..10 such that a tag token of the cell is CR and n,
\* zero-padded or not, once its separators are stripped and it is upper-cased
TagMentions(raw) ==
  LET toks == {RemoveChars(upper(tok), WS \cup {"-", "_"}) :
                 tok \in tokens_from(raw)}
  IN {n \in 1..10 : \E t \in toks : t \in PaddedForms(n, Len(t))}

\* (b) the numbers n in 1..10 such that the text holds CR, at most one
\* separator, at most one zero and n, between word boundaries, in either case
TextMentions(txt) ==
  LET up == upper(txt)
  IN {n \in 1..10 :
        \E i \in 1..Len(txt), len \in 3..6 :
          LET j == i + len - 1
          IN /\ j <= Len(txt)
             /\ (i = 1 \/ ~IsWord(txt[i - 1]))
             /\ (j = Len(txt) \/ ~IsWord(txt[j + 1]))
             /\ SubSeq(up, i, j) \in MentionForms[n]}

\* the numbers record i mentions, in a tag cell or in its text
RecMentions(i) ==
  UNION {TagMentions(Cell(i, k)) : k \in ColsLike(TAG_CANDS)}
  \cup (IF RecText(i) = None THEN {} ELSE TextMentions(RecText(i)))

\* C8: after the aggregation, the id of a record is listed under CRn, n in
\* 1..10, exactly when a tag token of the record is CR with the number n
\* (separators stripped, upper-cased, zero-padded or not) or its text holds a
\* word-delimited mention CR[separator][0]n; a number outside 1..10 credits
\* no code.
C8_CRMatching ==
  (prog = "phase0" /\ pc = "write_coverage") =>
    /\ \A i \in 1..Len(cells) :
         \A n \in RecMentions(i) : RecId(i) \in Range(cov[CRn(n)])
    /\ \A n \in 1..10 :
         \A x \in Range(cov[CRn(n)]) :
           \E i \in 1..Len(cells) : RecId(i) = x /\ n \in RecMentions(i)

\* a zero-padded mention in the text credited CR1
C8_Witness ==
  /\ prog = "phase0" /\ pc = "write_coverage"
  /\ Len(cells) = 1
  /\ cells[1][2] = <<>>
  /\ cells[1][3] = <<"C","r","-","0","1">>
  /\ cov[<<"C","R","1">>] = <<<<"Q","1">>>>


\* C1: the id list of every requirement code holds no id twice, and the Count
\* the coverage table reports for the code is the number of distinct ids
\* listed.
C1_NoDuplicateIds ==
  /\ \A r \in ReqSet : NoDuplicates(Ids(r))
  /\ Emitted =>
       \A k \in 1..Len(files[CovFile]) :
         files[CovFile][k].Count
           = Cardinality(Range(Ids(files[CovFile][k].Requirement)))

\* C2: a run that has ended, normally or by an abort, has written all of its
\* artifacts or none of them; a configuration error (a missing input file,
\* undiscoverable columns, an unavailable collaborator) leaves none.
C2_AllOrNothing ==
  Ended => (DOMAIN files = {} \/ DOMAIN files = Artifacts(prog))

ConfigErrors == {"Missing file", "questions file not found",
                 "CSV must contain at least ID and TAGS columns",
                 "PyPDF2 not available", "PdfReadError"}

C5_RowAnomaliesAbsorbed ==
  /\ pc = "exited" => err \in ConfigErrors
  /\ (prog = "engine" /\ qExists /\ ~MissingColumns(EngCols(header)) /\ Ended) =>
       (status = 0 /\ DOMAIN files = Artifacts(prog))

\* the gap entries of the first n records: one per record that has the
\* marker tag and whose evidence is absent or empty after trimming
RECURSIVE ExpectedGaps(_)
ExpectedGaps(n) ==
  IF n = 0 THEN <<>>
  ELSE IF /\ EVIDENCE_REQUIRED \in RecTags(n)
          /\ (RecEvidence(n) = None \/ strip(RecEvidence(n)) = <<>>)
       THEN Append(ExpectedGaps(n - 1),
                   [id |-> RecId(n), tags |-> join(sorted(RecTags(n)), <<",">>)])
       ELSE ExpectedGaps(n - 1)

\* C6: the gap list holds, in input order, exactly one entry (id, sorted
\* comma-joined tags) for each record read so far whose tags hold
\* EVIDENCE_REQUIRED and whose evidence is absent or empty after trimming, and
\* no entry for any other record.
C6_EvidenceGate ==
  (prog = "engine" /\ pc \in {"rows", "write_gaps", "write_summary", "done", "exited"}
     /\ qExists /\ ~MissingColumns(EngCols(header))) =>
    /\ missing_ev = ExpectedGaps(total)
    /\ GAPS_CSV \in DOMAIN files => files[GAPS_CSV] = ExpectedGaps(Len(cells))

\* C7: after the aggregation an id is listed under a letter A..G exactly when
\* a record with that id has the letter itself among its normalized tag
\* tokens; the text of a record and a token that only contains the letter
\* list nothing.
C7_LetterExactToken ==
  Aggregated =>
    \A l \in Range(Letters) :
      Range(Ids(l)) = {RecId(i) : i \in {k \in 1..Len(cells) : l \in RecTags(k)}}

\* C9: after the aggregation the ids of a code are the ids of the records
\* counting for it, in the order these records first appear in the input.
C9_FirstSeenOrder ==
  Aggregated =>
    \A r \in ReqSet : Ids(r) = FirstSeen(MatchIds(r, Len(cells)))

\* the enumeration of the requirement codes, spelled out
Enumeration == <<<<"C","R","1">>, <<"C","R","2">>, <<"C","R","3">>, <<"C","R","4">>, <<"C","R","5">>, <<"C","R","6">>, <<"C","R","7">>,
                 <<"C","R","8">>, <<"C","R","9">>, <<"C","R","1","0">>, <<"A">>, <<"B">>, <<"C">>, <<"D">>, <<"E">>,
                 <<"F">>, <<"G">>>>

\* C10: an emitted coverage table has one row per requirement code, in the
\* order CR1..CR10, A..G, with Covered = Y exactly for the codes whose id list
\* is not empty; with no input rows every row is N, 0 and empty, and the gap
\* list is empty.
C10_CoverageTableComplete ==
  Emitted =>
    LET table == files[CovFile]
    IN /\ Len(table) = Len(Enumeration)
       /\ \A k \in 1..Len(table) :
            /\ k <= Len(Enumeration) => table[k].Requirement = Enumeration[k]
            /\ table[k].Covered \in {"Y", "N"}
            /\ table[k].Covered = "Y" <=> Ids(table[k].Requirement) # <<>>
            /\ cells = <<>> =>
                 /\ table[k].Covered = "N"
                 /\ table[k].Count = 0
                 /\ table[k].QuestionIDs = <<>>
       /\ (cells = <<>> /\ GAPS_CSV \in DOMAIN files) => files[GAPS_CSV] = <<>>

\* a table has been emitted with covered and uncovered codes
C10_Witness ==
  /\ Emitted
  /\ \E k \in 1..Len(files[CovFile]) : files[CovFile][k].Covered = "Y"
  /\ \E k \in 1..Len(files[CovFile]) : files[CovFile][k].Covered = "N"

\* C4: whatever delimiter joins a list of tag tokens (comma, comma and space,
\* semicolon, pipe, slash, whitespace), a normalizer returns the set of the
\* upper-cased tokens; no value and the empty string give the empty set.
C4_DelimiterAgnostic ==
  nResult.fn # "" => nResult.out = {upper(t) : t \in Range(nInput.toks)}

====
